---- MODULE Spec2Model ----
(***************************************************************************)
(* Model of the contact-form edge function                                 *)
(*   src/supabase/functions/contact/index.ts                               *)
(* and of the database objects it calls (DDL in src/README.md):            *)
(* tenant_contact_settings, rate_limit_counters, form_submissions and the  *)
(* function check_and_increment_rate_limit.                                *)
(*                                                                         *)
(* Every request is one task.  A task is suspended only at its awaits of   *)
(* the database (settings lookup, rate-limit RPC, audit insert); the code  *)
(* between two awaits is one action.  Strings that the code trims or       *)
(* lower-cases (tenant, honeypot) are sequences of characters; the other   *)
(* contact fields are represented by their length after trim(), which is   *)
(* all the validation reads, and the email by its length and by whether    *)
(* it matches the pattern of isValidEmail.                                 *)
(***************************************************************************)
EXTENDS Integers, Sequences, FiniteSets, TLC

(***************************************************************************)
(* Bounds of the model                                                     *)
(***************************************************************************)
NReq == 2
MaxTicks == 1
TicksPerHour == 2
QuotaA == 2
QuotaB == 1

Slots == 1..NReq
\* the clock starts in the last tick of hour 0
StartNow == TicksPerHour - 1

(***************************************************************************)
(* Program constants                                                       *)
(***************************************************************************)
STEALTH_MODE_ALWAYS_200 == TRUE
MAX_TENANT_LEN == 64
MAX_NAME_LEN == 120
MAX_EMAIL_LEN == 180
MAX_PHONE_LEN == 50
MAX_COMPANY_NAME_LEN == 160
MAX_MESSAGE_LEN == 4000
DEFAULT_RATE_LIMIT == 10
UNSPECIFIED_IP == "0.0.0.0"
NULL_INT == -1

(***************************************************************************)
(* String helpers (String.prototype.trim / toLowerCase on char sequences)  *)
(***************************************************************************)
IsSpace(c) == c \in {" ", "\t"}

RECURSIVE TrimLeft(_)
TrimLeft(s) ==
  IF s = <<>> THEN s
  ELSE IF IsSpace(Head(s)) THEN TrimLeft(Tail(s)) ELSE s

RECURSIVE TrimRight(_)
TrimRight(s) ==
  IF s = <<>> THEN s
  ELSE IF IsSpace(s[Len(s)]) THEN TrimRight(SubSeq(s, 1, Len(s) - 1)) ELSE s

trim(s) == TrimRight(TrimLeft(s))

LowerChar(c) ==
  CASE c = "C" -> "c"
    [] c = "F" -> "f"
    [] c = "O" -> "o"
    [] c = "B" -> "b"
    [] OTHER -> c

toLowerCase(s) == [i \in 1..Len(s) |-> LowerChar(s[i])]

\* variant: the slug is lower-cased but not trimmed
normalizeTenantSlugNoTrim(s) == toLowerCase(s)

normalizeTenantSlug(s) == toLowerCase(trim(s))

(***************************************************************************)
(* Request helpers                                                         *)
(***************************************************************************)
getRequestOrigin(req) == req.origin

\* variant: x-real-ip is preferred to x-forwarded-for
getClientIpRealFirst(req) ==
  IF req.realip # "" THEN req.realip
  ELSE IF req.xff # <<>> THEN Head(req.xff)
  ELSE UNSPECIFIED_IP

getClientIp(req) ==
  IF req.xff # <<>> THEN Head(req.xff)
  ELSE IF req.realip # "" THEN req.realip
  ELSE UNSPECIFIED_IP

isValidEmail(email) == email.matches

\* variant: wildcard instead of the echoed origin
corsHeadersWildcard(origin) ==
  { <<"access-control-allow-origin", "*">>,
    <<"access-control-allow-methods", "POST, OPTIONS">>,
    <<"access-control-allow-headers", "content-type">>,
    <<"access-control-max-age", "86400">>,
    <<"vary", "Origin">> }

corsHeaders(origin) ==
  { <<"access-control-allow-origin", origin>>,
    <<"access-control-allow-methods", "POST, OPTIONS">>,
    <<"access-control-allow-headers", "content-type">>,
    <<"access-control-max-age", "86400">>,
    <<"vary", "Origin">> }

jsonResponse(status, body, headers) ==
  [status |-> status, body |-> body,
   headers |-> {<<"content-type", "application/json; charset=utf-8">>} \cup headers]

okStealth(origin) ==
  jsonResponse(200, "{ok:true}", IF origin # "" THEN corsHeaders(origin) ELSE {})

(***************************************************************************)
(* Database: tenant_contact_settings (rows of the deployment)              *)
(***************************************************************************)
CF == <<"c", "f">>
OB == <<"o", "b">>
OFF == <<"o", "f", "f">>

ORIGIN_A == "https://cf.example"
ORIGIN_B == "https://ob.example"
ORIGIN_EVIL == "https://evil.example"

SettingsTable ==
  (CF :> [tenant_slug |-> CF, allowed_origins |-> {ORIGIN_A},
          slack_webhook_url |-> "hook-cf", rate_limit_per_hour |-> QuotaA,
          enabled |-> TRUE])
  @@ (OB :> [tenant_slug |-> OB, allowed_origins |-> {ORIGIN_B},
             slack_webhook_url |-> "hook-ob", rate_limit_per_hour |-> QuotaB,
             enabled |-> TRUE])
  @@ (OFF :> [tenant_slug |-> OFF, allowed_origins |-> {ORIGIN_A},
              slack_webhook_url |-> "hook-off", rate_limit_per_hour |-> QuotaA,
              enabled |-> FALSE])

\* sb.from(SETTINGS_TABLE).select(..).eq("tenant_slug", tenant).maybeSingle()
SelectSettings(tenant) ==
  IF tenant \in DOMAIN SettingsTable THEN {SettingsTable[tenant]} ELSE {}

(***************************************************************************)
(* Database: rate_limit_counters and check_and_increment_rate_limit        *)
(***************************************************************************)
\* values accepted by the column type inet
ValidInet(ip) == ip \in {"0.0.0.0", "1.1.1.1", "2.2.2.2", "3.3.3.3"}

\* variant: truncation to a coarser unit than the hour
BucketHourCoarse(now) == 0

\* date_trunc('hour', now()): the clock of the model counts fractions of an hour
BucketHour(now) == now \div TicksPerHour

\* variant: the address is not part of the key
CounterKeyNoIp(slug, ip, now) == <<slug, "0.0.0.0", BucketHour(now)>>

CounterKey(slug, ip, now) == <<slug, ip, BucketHour(now)>>

CountOf(cnt, k) == IF k \in DOMAIN cnt THEN cnt[k] ELSE 0

\* variant: on conflict the count is reset
UpsertOverwrite(cnt, k) ==
  IF k \in DOMAIN cnt THEN [cnt EXCEPT ![k] = 1] ELSE cnt @@ (k :> 1)

\* variant: on conflict do nothing (the update of a concurrent caller is lost)
UpsertLost(cnt, k) ==
  IF k \in DOMAIN cnt THEN cnt ELSE cnt @@ (k :> 1)

\* insert .. values (.., 1) on conflict .. do update set count = count + 1
Upsert(cnt, k) ==
  IF k \in DOMAIN cnt THEN [cnt EXCEPT ![k] = @ + 1] ELSE cnt @@ (k :> 1)

\* variant: one request more than the limit is let through
WithinLimitOffByOne(v_count, p_limit) == v_count <= p_limit + 1

\* variant: strict comparison
WithinLimitStrict(v_count, p_limit) == v_count < p_limit

\* return v_count <= p_limit
WithinLimit(v_count, p_limit) == v_count <= p_limit

check_and_increment_rate_limit(cnt, p_tenant_slug, p_ip, p_limit, now) ==
  LET k == CounterKey(p_tenant_slug, p_ip, now)
      after == Upsert(cnt, k)
  IN [counters |-> after, key |-> k, v_count |-> after[k],
      result |-> WithinLimit(after[k], p_limit)]

(***************************************************************************)
(* Requests                                                                *)
(***************************************************************************)
ValidFields ==
  [name |-> 4, email |-> [length |-> 6, matches |-> TRUE], phone |-> 0,
   company_name |-> 0, message |-> 5]

FieldProfiles ==
  { ValidFields,
    [ValidFields EXCEPT !.name = 0],
    [ValidFields EXCEPT !.name = MAX_NAME_LEN],
    [ValidFields EXCEPT !.name = MAX_NAME_LEN + 1],
    [ValidFields EXCEPT !.email = [length |-> 0, matches |-> FALSE]],
    [ValidFields EXCEPT !.email = [length |-> 3, matches |-> FALSE]],
    [ValidFields EXCEPT !.email = [length |-> MAX_EMAIL_LEN, matches |-> TRUE]],
    [ValidFields EXCEPT !.email = [length |-> MAX_EMAIL_LEN + 1, matches |-> TRUE]],
    [ValidFields EXCEPT !.phone = MAX_PHONE_LEN],
    [ValidFields EXCEPT !.phone = MAX_PHONE_LEN + 1],
    [ValidFields EXCEPT !.company_name = MAX_COMPANY_NAME_LEN],
    [ValidFields EXCEPT !.company_name = MAX_COMPANY_NAME_LEN + 1],
    [ValidFields EXCEPT !.message = 0],
    [ValidFields EXCEPT !.message = MAX_MESSAGE_LEN],
    [ValidFields EXCEPT !.message = MAX_MESSAGE_LEN + 1] }

LongTenant == [i \in 1..(MAX_TENANT_LEN + 1) |-> "c"]

TenantInputs ==
  { CF, <<" ", "C", "f", "\t">>, OB, OFF, <<"O", "f", "F">>, <<"z">>, <<>>,
    <<" ">>, LongTenant }

HoneypotInputs == { <<>>, <<" ">>, <<"x">>, <<" ", "x">> }

OriginInputs == { "", ORIGIN_A, ORIGIN_B, ORIGIN_EVIL }

\* x-forwarded-for as the list of its comma-separated entries, x-real-ip;
\* an absent header is the empty list, the empty string
IpHeaderInputs ==
  { [xff |-> <<>>, realip |-> ""],
    [xff |-> <<"1.1.1.1", "3.3.3.3">>, realip |-> "2.2.2.2"],
    [xff |-> <<>>, realip |-> "2.2.2.2"],
    [xff |-> <<"spoof">>, realip |-> ""] }

Request(method, body, tenant, fields, honeypot, origin, iph) ==
  [method |-> method, body |-> body, tenant |-> tenant, fields |-> fields,
   honeypot |-> honeypot, origin |-> origin, xff |-> iph.xff,
   realip |-> iph.realip]

AddrOne == [xff |-> <<"1.1.1.1", "3.3.3.3">>, realip |-> "2.2.2.2"]
AddrTwo == [xff |-> <<>>, realip |-> "1.1.1.1"]
AddrNone == [xff |-> <<>>, realip |-> ""]

BaseRequest ==
  Request("POST", "object", CF, ValidFields, <<>>, ORIGIN_A, AddrOne)

\* every shape of a single request
AllInputs ==
  { Request("POST", "object", t, f, h, o, a) :
      t \in TenantInputs, f \in FieldProfiles, h \in HoneypotInputs,
      o \in OriginInputs, a \in IpHeaderInputs }
  \cup { Request(m, b, CF, ValidFields, h, o, AddrOne) :
      m \in {"OPTIONS", "GET", "POST"}, b \in {"malformed", "null", "object"},
      h \in {<<>>, <<"x">>}, o \in OriginInputs }

\* the requests of a concurrent batch
BatchSeq ==
  << BaseRequest,
     [BaseRequest EXCEPT !.tenant = <<" ", "C", "f", "\t">>],
     Request("POST", "object", OB, ValidFields, <<>>, ORIGIN_B, AddrTwo),
     [BaseRequest EXCEPT !.origin = ORIGIN_EVIL],
     [BaseRequest EXCEPT !.honeypot = <<"x">>],
     [BaseRequest EXCEPT !.tenant = OFF],
     [BaseRequest EXCEPT !.body = "null"],
     Request("POST", "object", OB, ValidFields, <<>>, ORIGIN_B, AddrNone) >>

(***************************************************************************)
(* State                                                                   *)
(***************************************************************************)
VARIABLES
  stealth,    \* STEALTH_MODE_ALWAYS_200 of the deployment
  envOK,      \* SUPABASE_URL and SUPABASE_SERVICE_ROLE_KEY are set
  now,        \* database clock
  input,      \* input[r]: the request of task r
  pc,         \* pc[r]: the await at which task r is suspended
  local,      \* local[r]: the handler's local variables
  counters,   \* table rate_limit_counters: key -> count
  audit,      \* table form_submissions
  resp,       \* resp[r]: the response returned for r
  outcome,    \* outcome[r]: the return statement that ended r
  rl,         \* rl[r]: what the rate-limit call of r did at the database
  inserts,    \* inserts[r]: number of audit inserts attempted for r
  insertResult, \* insertResult[r]: how the audit insert of r ended
  slack       \* slack[r]: number of webhook posts attempted for r

vars ==
  <<stealth, envOK, now, input, pc, local, counters, audit, resp, outcome,
    rl, inserts, insertResult, slack>>

NoLocal ==
  [origin |-> "", tenant |-> <<>>, honeypot |-> <<>>, fields |-> ValidFields,
   settings |-> {}, settingsErr |-> FALSE, ip |-> ""]

NoRl == [called |-> FALSE, applied |-> FALSE, key |-> <<>>, v_count |-> 0,
         p_limit |-> 0, result |-> FALSE, error |-> FALSE]

NoResp == [status |-> 0, body |-> "", headers |-> {}]

InitTables ==
  /\ now = StartNow
  /\ local = [r \in Slots |-> NoLocal]
  /\ counters = << >>
  /\ audit = {}
  /\ resp = [r \in Slots |-> NoResp]
  /\ outcome = [r \in Slots |-> "none"]
  /\ rl = [r \in Slots |-> NoRl]
  /\ inserts = [r \in Slots |-> 0]
  /\ insertResult = [r \in Slots |-> "none"]
  /\ slack = [r \in Slots |-> 0]

InitCommon ==
  /\ stealth = STEALTH_MODE_ALWAYS_200
  /\ InitTables

\* a batch of NReq concurrent requests (slots are interchangeable)
Init ==
  /\ InitCommon
  /\ envOK = TRUE
  /\ \E idx \in [Slots -> 1..Len(BatchSeq)] :
       /\ \A r \in Slots : r > 1 => idx[r - 1] <= idx[r]
       /\ input = [r \in Slots |-> BatchSeq[idx[r]]]
  /\ pc = [r \in Slots |-> "start"]

\* one request of any shape
InitOne ==
  /\ InitCommon
  /\ envOK \in BOOLEAN
  /\ \E q \in AllInputs :
       input = [r \in Slots |-> IF r = 1 THEN q ELSE BaseRequest]
  /\ pc = [r \in Slots |-> IF r = 1 THEN "start" ELSE "absent"]

(***************************************************************************)
(* The handler of Deno.serve, one action per stretch between two awaits    *)
(***************************************************************************)
Return(r, response, why) ==
  /\ pc' = [pc EXCEPT ![r] = "done"]
  /\ resp' = [resp EXCEPT ![r] = response]
  /\ outcome' = [outcome EXCEPT ![r] = why]

\* variant: the rejection is masked whatever the mode
RejectAlwaysStealth(r, origin, status, error, headers) ==
  Return(r, okStealth(origin), error)

\* a rejection that stealth mode masks
Reject(r, origin, status, error, headers) ==
  Return(r, IF stealth THEN okStealth(origin)
            ELSE jsonResponse(status, error, headers), error)

HoneypotTripped(honeypot) == Len(honeypot) > 0

\* "Basic validation": the error of the first failing check, "" if none
ValidationError(tenant, f) ==
  IF tenant = <<>> \/ Len(tenant) > MAX_TENANT_LEN THEN "invalid_tenant"
  ELSE IF f.name = 0 \/ f.name > MAX_NAME_LEN THEN "invalid_name"
  ELSE IF f.email.length = 0 \/ f.email.length > MAX_EMAIL_LEN
          \/ ~isValidEmail(f.email) THEN "invalid_email"
  ELSE IF f.phone > MAX_PHONE_LEN THEN "invalid_phone"
  ELSE IF f.company_name > MAX_COMPANY_NAME_LEN THEN "invalid_company_name"
  ELSE IF f.message = 0 \/ f.message > MAX_MESSAGE_LEN THEN "invalid_message"
  ELSE ""

\* lines 163-206: method, environment, req.json(), field extraction,
\* honeypot, validation
Parse(r) ==
  /\ pc[r] = "start"
  /\ LET req == input[r]
         origin == getRequestOrigin(req)
         tenant == normalizeTenantSlug(req.tenant)
         honeypot == trim(req.honeypot)
         verr == ValidationError(tenant, req.fields)
     IN /\ local' = [local EXCEPT ![r] =
              IF req.method = "POST" /\ envOK /\ req.body = "object"
              THEN [@ EXCEPT !.origin = origin, !.tenant = tenant,
                             !.honeypot = honeypot, !.fields = req.fields]
              ELSE [@ EXCEPT !.origin = origin]]
        /\ IF req.method = "OPTIONS"
           THEN Return(r, [status |-> 204, body |-> "",
                           headers |-> corsHeaders(origin)], "preflight")
           ELSE IF req.method # "POST"
           THEN Return(r, jsonResponse(405, "method_not_allowed", {}),
                       "method_not_allowed")
           ELSE IF ~envOK
           THEN Return(r, jsonResponse(500, "server_misconfigured", {}),
                       "server_misconfigured")
           ELSE IF req.body = "malformed"
           THEN Reject(r, origin, 400, "invalid_json", {})
           ELSE IF req.body = "null"
           \* payload.tenant of null throws; the runtime answers the
           \* uncaught exception
           THEN Return(r, [status |-> 500, body |-> "Internal Server Error",
                           headers |-> {}], "uncaught_exception")
           ELSE IF HoneypotTripped(honeypot)
           THEN Return(r, okStealth(origin), "honeypot")
           ELSE IF verr # ""
           THEN Reject(r, origin, 400, verr, {})
           ELSE /\ pc' = [pc EXCEPT ![r] = "settings"]
                /\ UNCHANGED <<resp, outcome>>
  /\ UNCHANGED <<stealth, envOK, now, input, counters, audit, rl, inserts,
                 insertResult, slack>>

\* variant: the enabled flag is not looked at
TenantUsableIgnoreEnabled(settingsErr, settings) ==
  ~(settingsErr \/ settings = {})

TenantUsable(settingsErr, settings) ==
  ~(settingsErr \/ settings = {} \/ \E row \in settings : row.enabled # TRUE)

\* variant: the origin is looked up in the allow-lists of all tenants
OriginAllowedAnyTenant(origin, allowedOrigins) ==
  \E t \in DOMAIN SettingsTable : origin \in SettingsTable[t].allowed_origins

OriginAllowed(origin, allowedOrigins) ==
  ~(origin = "" \/ origin \notin allowedOrigins)

\* lines 209-230: tenant settings, origin allowlist, client address
LoadSettings(r) ==
  /\ pc[r] = "settings"
  /\ \E settingsErr \in BOOLEAN :
       LET settings == IF settingsErr THEN {}
                       ELSE SelectSettings(local[r].tenant)
           origin == local[r].origin
       IN /\ local' = [local EXCEPT ![r].settings = settings,
                                    ![r].settingsErr = settingsErr,
                                    ![r].ip = getClientIp(input[r])]
          /\ IF ~TenantUsable(settingsErr, settings)
             THEN Return(r, okStealth(origin),
                         IF settingsErr THEN "settings_error"
                         ELSE "tenant_unavailable")
             ELSE IF ~OriginAllowed(origin,
                        UNION {row.allowed_origins : row \in settings})
             THEN Reject(r, origin, 403, "forbidden_origin",
                         corsHeaders(origin))
             ELSE /\ pc' = [pc EXCEPT ![r] = "rpc"]
                  /\ UNCHANGED <<resp, outcome>>
  /\ UNCHANGED <<stealth, envOK, now, input, counters, audit, rl, inserts,
                 insertResult, slack>>

\* settings.rate_limit_per_hour ?? 10
EffectiveLimit(rate_limit_per_hour) ==
  IF rate_limit_per_hour = NULL_INT THEN DEFAULT_RATE_LIMIT
  ELSE rate_limit_per_hour

\* variant: an error of the call lets the request through (fail open)
RateLimitPassedFailOpen(rlErr, allowed) == rlErr \/ allowed = TRUE

\* variant: only the error of the call is looked at
RateLimitPassedNoVerdict(rlErr, allowed) == ~rlErr

RateLimitPassed(rlErr, allowed) == ~(rlErr \/ allowed # TRUE)

\* lines 232-241: the RPC and its verdict.  The call either never reaches
\* the function (network, or p_ip is not an inet), or runs it atomically;
\* the answer of a call that ran may still be lost.
RateLimit(r) ==
  /\ pc[r] = "rpc"
  /\ \E net \in {"ok", "unreachable", "reply_lost"} :
       LET row == CHOOSE x \in local[r].settings : TRUE
           p_limit == EffectiveLimit(row.rate_limit_per_hour)
           ip == local[r].ip
           runs == net # "unreachable" /\ ValidInet(ip)
           call == check_and_increment_rate_limit(counters, local[r].tenant,
                                                  ip, p_limit, now)
           rlErr == ~runs \/ net = "reply_lost"
           allowed == IF rlErr THEN FALSE ELSE call.result
           origin == local[r].origin
       IN /\ counters' = IF runs THEN call.counters ELSE counters
          /\ rl' = [rl EXCEPT ![r] =
                [called |-> TRUE, applied |-> runs,
                 key |-> IF runs THEN call.key ELSE <<>>,
                 v_count |-> IF runs THEN call.v_count ELSE 0,
                 p_limit |-> p_limit,
                 result |-> IF runs THEN call.result ELSE FALSE,
                 error |-> rlErr]]
          /\ IF ~RateLimitPassed(rlErr, allowed)
             THEN Reject(r, origin, 429, "rate_limited", corsHeaders(origin))
             ELSE /\ pc' = [pc EXCEPT ![r] = "insert"]
                  /\ UNCHANGED <<resp, outcome>>
  /\ UNCHANGED <<stealth, envOK, now, input, local, audit, inserts,
                 insertResult, slack>>

AuditRow(r, tenant, f, ip) ==
  [request |-> r, tenant_slug |-> tenant, fields |-> f,
   ip |-> IF ip = UNSPECIFIED_IP THEN "NULL" ELSE ip]

\* variant: an insert that throws is not caught
AfterInsertUncaught(result) == IF result = "throw" THEN "crashed" ELSE "done"

\* lines 257-260: insertErr and a thrown exception are only logged
AfterInsert(result) == "done"

\* number of calls of postToSlack the handler makes for an admitted request
\* (line 274: the call is commented out)
SlackCalls == 0

\* lines 263-276: Slack text, (disabled) notification, success response;
\* with the call at line 274 disabled nothing is awaited after the insert
Respond(r) ==
  /\ slack' = [slack EXCEPT ![r] = @ + SlackCalls]
  /\ Return(r, jsonResponse(200, "{ok:true}", corsHeaders(local[r].origin)),
            "admitted")

\* lines 244-276: best-effort insert into form_submissions, then the response
Persist(r) ==
  /\ pc[r] = "insert"
  /\ \E result \in {"ok", "error", "throw"} :
       /\ audit' = IF result = "ok"
                   THEN audit \cup {AuditRow(r, local[r].tenant,
                                             local[r].fields, local[r].ip)}
                   ELSE audit
       /\ insertResult' = [insertResult EXCEPT ![r] = result]
       /\ IF AfterInsert(result) = "done"
          THEN Respond(r)
          ELSE /\ pc' = [pc EXCEPT ![r] = AfterInsert(result)]
               /\ UNCHANGED <<resp, outcome, slack>>
  /\ inserts' = [inserts EXCEPT ![r] = @ + 1]
  /\ UNCHANGED <<stealth, envOK, now, input, local, counters, rl>>

\* the database clock advances
Tick ==
  /\ now < StartNow + MaxTicks
  /\ now' = now + 1
  /\ UNCHANGED <<stealth, envOK, input, pc, local, counters, audit, resp,
                 outcome, rl, inserts, insertResult, slack>>

Next ==
  \/ \E r \in Slots : Parse(r)
  \/ \E r \in Slots : LoadSettings(r)
  \/ \E r \in Slots : RateLimit(r)
  \/ \E r \in Slots : Persist(r)
  \/ Tick

Spec == Init /\ [][Next]_vars

SpecOne == InitOne /\ [][Next]_vars

\* one request of any shape, served by a build with stealth mode off
InitOff ==
  /\ stealth = FALSE
  /\ InitTables
  /\ envOK \in BOOLEAN
  /\ \E q \in AllInputs :
       input = [r \in Slots |-> IF r = 1 THEN q ELSE BaseRequest]
  /\ pc = [r \in Slots |-> IF r = 1 THEN "start" ELSE "absent"]

SpecOff == InitOff /\ [][Next]_vars

(***************************************************************************)
(* Vocabulary of the properties                                            *)
(***************************************************************************)
\* r is a request of the admission pipeline: a POST handled by a
\* configured deployment
InPipeline(r) == pc[r] # "absent" /\ input[r].method = "POST" /\ envOK

Finished(r) == pc[r] = "done"

\* the slug the request names, as the tenant registry keys it
NamedSlug(r) == normalizeTenantSlug(input[r].tenant)

\* the uniform success acknowledgment for a declared origin
UniformSuccess(origin) ==
  [status |-> 200, body |-> "{ok:true}",
   headers |-> {<<"content-type", "application/json; charset=utf-8">>}
      \cup IF origin = "" THEN {}
           ELSE { <<"access-control-allow-origin", origin>>,
                  <<"access-control-allow-methods", "POST, OPTIONS">>,
                  <<"access-control-allow-headers", "content-type">>,
                  <<"access-control-max-age", "86400">>,
                  <<"vary", "Origin">> }]

RowsOf(r) == {row \in audit : row.request = r}

NoSideEffect(r) == RowsOf(r) = {} /\ inserts[r] = 0 /\ slack[r] = 0

\* the requests whose increment was applied to counter k
Batch(k) == {r \in Slots : rl[r].applied /\ rl[r].key = k}

\* the rate-limit step let r through
PassedRateLimit(r) ==
  pc[r] = "insert" \/ outcome[r] = "admitted"

QuotaOf(k) == SettingsTable[k[1]].rate_limit_per_hour

Min(a, b) == IF a <= b THEN a ELSE b

AllKeys == DOMAIN counters \cup {rl[r].key : r \in {x \in Slots : rl[x].applied}}

(***************************************************************************)
(* C1: for the requests whose rate-limit call was applied to one key       *)
(* (tenant, address, hour), under every interleaving the counter equals    *)
(* their number, they received the counts 1..N (no increment lost, none    *)
(* duplicated), the call returned true exactly to those whose count is     *)
(* within the quota, and when every answer arrived exactly min(N, quota)   *)
(* of them were let through by the rate-limit step.                        *)
(***************************************************************************)
C1_AtomicCounter ==
  \A k \in AllKeys :
    LET B == Batch(k)
        n == Cardinality(B)
    IN /\ CountOf(counters, k) = n
       /\ {rl[r].v_count : r \in B} = 1..n
       /\ \A r \in B : rl[r].result = (rl[r].v_count <= QuotaOf(k))
       /\ \A r \in B : PassedRateLimit(r) => rl[r].v_count <= QuotaOf(k)
       /\ (\A r \in B : ~rl[r].error) =>
            Cardinality({r \in B : PassedRateLimit(r)}) = Min(n, QuotaOf(k))

C1_Witness ==
  \E k \in AllKeys :
    /\ Cardinality(Batch(k)) = NReq
    /\ Cardinality(Batch(k)) > QuotaOf(k)
    /\ \A r \in Batch(k) : ~rl[r].error /\ Finished(r)

(***************************************************************************)
(* C2 (as stated): every row of the audit store belongs to a request       *)
(* whose payload parsed, whose honeypot field was empty, whose fields are  *)
(* valid, whose tenant resolved to an enabled configuration, whose origin  *)
(* is in that tenant's allow-list and for which the rate limiter returned  *)
(* true.                                                                   *)
(***************************************************************************)
C2_OnlyAdmittedAudited ==
  \A row \in audit :
    LET r == row.request
    IN /\ input[r].body = "object"
       /\ input[r].honeypot = <<>>
       /\ ValidationError(NamedSlug(r), input[r].fields) = ""
       /\ NamedSlug(r) \in DOMAIN SettingsTable
       /\ SettingsTable[NamedSlug(r)].enabled
       /\ input[r].origin \in SettingsTable[NamedSlug(r)].allowed_origins
       /\ rl[r].applied /\ rl[r].result /\ ~rl[r].error

(***************************************************************************)
(* C3 (as stated): a pipeline request whose honeypot field is non-empty,   *)
(* once the handler has looked at it, is finished by the honeypot check    *)
(* with the uniform success response, no audit insert and no notification. *)
(***************************************************************************)
C3_HoneypotStealth ==
  \A r \in Slots :
    (InPipeline(r) /\ input[r].body = "object" /\ input[r].honeypot # <<>>
       /\ pc[r] # "start")
    => /\ Finished(r)
       /\ outcome[r] = "honeypot"
       /\ resp[r] = UniformSuccess(input[r].origin)
       /\ NoSideEffect(r)

(***************************************************************************)
(* C4: a call of the rate-limit function that runs raises the counter of   *)
(* (tenant, address, current hour bucket) by exactly one, leaves every     *)
(* other counter alone, and returns true iff the count after the increment *)
(* is <= the limit; the increment stays when it returns false.             *)
(***************************************************************************)
C4_TryAdmit ==
  [][\A r \in Slots :
       (rl'[r].applied /\ ~rl[r].applied) =>
         LET k == <<local[r].tenant, local[r].ip, now \div TicksPerHour>>
         IN /\ rl'[r].key = k
            /\ rl'[r].p_limit = SettingsTable[NamedSlug(r)].rate_limit_per_hour
            /\ CountOf(counters', k) = CountOf(counters, k) + 1
            /\ rl'[r].v_count = CountOf(counters', k)
            /\ rl'[r].result = (CountOf(counters', k) <= rl'[r].p_limit)
            /\ \A k2 \in (DOMAIN counters \cup DOMAIN counters') \ {k} :
                 CountOf(counters', k2) = CountOf(counters, k2)]_vars

C4_Witness ==
  \E r \in Slots :
    /\ rl[r].applied /\ ~rl[r].result
    /\ CountOf(counters, rl[r].key) = rl[r].p_limit + 1
    /\ Finished(r) /\ outcome[r] = "rate_limited"

(***************************************************************************)
(* C5 (as stated): with stealth mode on, any two finished POST requests    *)
(* of a configured deployment that carry the same Origin header received   *)
(* the same response (status, body, headers), and its status is 200 with   *)
(* body {"ok": true}.                                                      *)
(***************************************************************************)
C5_Indistinguishable ==
  stealth =>
    \A r1, r2 \in Slots :
      (InPipeline(r1) /\ InPipeline(r2) /\ Finished(r1) /\ Finished(r2)
         /\ input[r1].origin = input[r2].origin)
      => /\ resp[r1] = resp[r2]
         /\ resp[r1].status = 200 /\ resp[r1].body = "{ok:true}"

(***************************************************************************)
(* C6 (as stated): for every admitted submission exactly one notification  *)
(* attempt has been made when the request finishes, and never more than    *)
(* one at any time.                                                        *)
(***************************************************************************)
C6_OneNotification ==
  \A r \in Slots :
    /\ slack[r] <= 1
    /\ outcome[r] = "admitted" => slack[r] = 1 /\ inserts[r] = 1

(***************************************************************************)
(* C7: a POST request that passed every admission check and is finished    *)
(* received HTTP 200 {"ok": true} with CORS headers echoing its origin,    *)
(* exactly one audit insert was attempted for it, and the row it may have  *)
(* stored carries the normalized slug and the extracted fields; no request *)
(* ever has more than one insert attempt.                                  *)
(***************************************************************************)
PassedEveryCheck(r) ==
  /\ InPipeline(r)
  /\ input[r].body = "object"
  /\ trim(input[r].honeypot) = <<>>
  /\ ValidationError(NamedSlug(r), input[r].fields) = ""
  /\ local[r].settings # {}
  /\ \A row \in local[r].settings : row.enabled
  /\ \A row \in local[r].settings : input[r].origin \in row.allowed_origins
  /\ rl[r].applied /\ rl[r].result /\ ~rl[r].error

C7_AdmittedResponse ==
  \A r \in Slots :
    /\ inserts[r] <= 1
    /\ \A row \in RowsOf(r) :
         /\ row.tenant_slug \in DOMAIN SettingsTable
         /\ row.tenant_slug = NamedSlug(r)
         /\ row.fields = input[r].fields
    /\ (PassedEveryCheck(r) /\ Finished(r)) =>
         /\ resp[r].status = 200
         /\ resp[r].body = "{ok:true}"
         /\ <<"access-control-allow-origin", input[r].origin>> \in resp[r].headers
         /\ \A h \in resp[r].headers :
              h[1] = "access-control-allow-origin" => h[2] = input[r].origin
         /\ inserts[r] = 1

C7_Witness ==
  \E r \in Slots :
    /\ PassedEveryCheck(r) /\ Finished(r)
    /\ input[r].tenant # NamedSlug(r)
    /\ RowsOf(r) # {}

(***************************************************************************)
(* C8: a request whose rate-limit call ran after `quota` earlier calls on  *)
(* the same (tenant, address, hour bucket) is rejected at the rate-limit   *)
(* step: it finishes there with HTTP 200 {"ok": true} (stealth mode on),   *)
(* no audit insert and no notification.                                    *)
(***************************************************************************)
C8_OverQuotaRejected ==
  \A r \in Slots :
    (rl[r].applied /\ rl[r].v_count > QuotaOf(rl[r].key)) =>
      /\ Finished(r)
      /\ outcome[r] = "rate_limited"
      /\ stealth => resp[r] = UniformSuccess(input[r].origin)
      /\ NoSideEffect(r)

C8_Witness ==
  \E r \in Slots :
    /\ rl[r].applied /\ rl[r].v_count = QuotaOf(rl[r].key) + 1
    /\ ~rl[r].error
    /\ \E r2 \in Slots : r2 # r /\ rl[r2].key = rl[r].key
                         /\ outcome[r2] = "admitted"

(***************************************************************************)
(* C9: a pipeline request whose payload names an unknown tenant or a       *)
(* tenant with enabled = false, once finished, received the uniform        *)
(* success response (the same function of its origin in both cases), and   *)
(* neither the rate limiter, nor the audit store, nor the notifier was     *)
(* called for it.                                                          *)
(***************************************************************************)
TenantUnknown(r) == NamedSlug(r) \notin DOMAIN SettingsTable

TenantDisabled(r) ==
  NamedSlug(r) \in DOMAIN SettingsTable /\ ~SettingsTable[NamedSlug(r)].enabled

C9_UnknownOrDisabled ==
  \A r \in Slots :
    (InPipeline(r) /\ input[r].body = "object"
       /\ (TenantUnknown(r) \/ TenantDisabled(r)))
    => /\ pc[r] \in {"start", "settings", "done"}
       /\ ~rl[r].called
       /\ NoSideEffect(r)
       /\ Finished(r) => resp[r] = UniformSuccess(input[r].origin)

C9_Witness ==
  \E r \in Slots :
    /\ InPipeline(r) /\ TenantDisabled(r) /\ Finished(r)
    /\ input[r].tenant # NamedSlug(r)
    /\ outcome[r] = "tenant_unavailable"
    /\ input[r].origin \in SettingsTable[NamedSlug(r)].allowed_origins

(***************************************************************************)
(* C10: a request that reached the origin check (its tenant resolved to    *)
(* an enabled configuration) is rejected there iff its origin is missing   *)
(* or is not a member of the allow-list of the tenant it names; if its     *)
(* origin is in that list it goes on to the rate limiter and is admitted   *)
(* when the rate limiter returns true.                                     *)
(***************************************************************************)
ReachedOriginCheck(r) ==
  /\ InPipeline(r)
  /\ pc[r] \notin {"start", "settings"}
  /\ local[r].settings # {}
  /\ \A row \in local[r].settings : row.enabled

C10_OriginCheck ==
  \A r \in Slots :
    ReachedOriginCheck(r) =>
      LET allow == SettingsTable[NamedSlug(r)].allowed_origins
          member == input[r].origin # "" /\ input[r].origin \in allow
      IN /\ ~member => /\ Finished(r) /\ outcome[r] = "forbidden_origin"
                       /\ ~rl[r].called /\ NoSideEffect(r)
         /\ member => /\ outcome[r] # "forbidden_origin"
                      /\ (Finished(r) /\ rl[r].result /\ ~rl[r].error)
                           => outcome[r] = "admitted"
                      /\ Finished(r) => rl[r].called

C10_Witness ==
  \E r \in Slots :
    /\ ReachedOriginCheck(r)
    /\ outcome[r] = "forbidden_origin"
    /\ input[r].origin = ORIGIN_B
    /\ NamedSlug(r) = CF

(***************************************************************************)
(* C11: once the audit insert of a request has been attempted, whether it  *)
(* succeeded, returned an error or threw, the request goes on to the       *)
(* success response: it is never rejected, the insert is not repeated, and *)
(* the response is HTTP 200 {"ok": true} with the CORS headers of its      *)
(* origin in all three cases.                                              *)
(***************************************************************************)
C11_AuditFailureMasked ==
  \A r \in Slots :
    insertResult[r] # "none" =>
      /\ Finished(r)
      /\ inserts[r] = 1
      /\ (insertResult[r] = "ok") = (RowsOf(r) # {})
      /\ outcome[r] = "admitted"
      /\ input[r].origin # ""
      /\ resp[r] = UniformSuccess(input[r].origin)

C11_Witness ==
  \E r1, r2 \in Slots :
    /\ Finished(r1) /\ Finished(r2)
    /\ insertResult[r1] = "throw" /\ insertResult[r2] = "ok"
    /\ input[r1].origin = input[r2].origin
    /\ resp[r1] = resp[r2]

(***************************************************************************)
(* C12: a request whose tenant lookup returned an error, or whose          *)
(* rate-limit call returned an error or a result other than true, is       *)
(* rejected: it is finished by that step, no audit insert is attempted and *)
(* no notification is made for it.                                         *)
(***************************************************************************)
C12_FailClosed ==
  \A r \in Slots :
    /\ local[r].settingsErr =>
         /\ Finished(r) /\ outcome[r] = "settings_error"
         /\ ~rl[r].called /\ NoSideEffect(r)
    /\ (rl[r].called /\ (rl[r].error \/ ~rl[r].result)) =>
         /\ Finished(r) /\ outcome[r] = "rate_limited"
         /\ NoSideEffect(r)

C12_Witness ==
  \E r1, r2 \in Slots :
    /\ local[r1].settingsErr /\ Finished(r1)
    /\ rl[r2].applied /\ rl[r2].result /\ rl[r2].error /\ Finished(r2)

(***************************************************************************)
(* C13 (as stated): with stealth mode off, a request that failed because   *)
(* the tenant store or the counter store was unavailable is answered with  *)
(* a 5xx status.                                                           *)
(***************************************************************************)
BackendFailed(r) ==
  local[r].settingsErr \/ (rl[r].called /\ rl[r].error)

C13_BackendError5xx ==
  ~stealth =>
    \A r \in Slots :
      (InPipeline(r) /\ Finished(r) /\ BackendFailed(r)) =>
        resp[r].status \in 500..599

(***************************************************************************)
(* C13 (amended): with stealth mode off, a failed tenant lookup is         *)
(* answered with the uniform 200 {"ok": true}, exactly like an unknown or  *)
(* disabled tenant, and a failed rate-limit call with 429 rate_limited,    *)
(* exactly like a genuine rate-limit rejection; the origin rejection is    *)
(* the 403, and no backend failure is answered with a 5xx.                 *)
(***************************************************************************)
C13_BackendErrorMasked ==
  ~stealth =>
    \A r \in Slots :
      (InPipeline(r) /\ Finished(r)) =>
        /\ (local[r].settingsErr \/ outcome[r] = "tenant_unavailable") =>
             resp[r] = UniformSuccess(input[r].origin)
        /\ (rl[r].called /\ (rl[r].error \/ ~rl[r].result)) =>
             /\ resp[r].status = 429
             /\ resp[r].body = "rate_limited"
             /\ <<"access-control-allow-origin", input[r].origin>>
                  \in resp[r].headers
        /\ outcome[r] = "forbidden_origin" => resp[r].status = 403
        /\ BackendFailed(r) => resp[r].status \notin 500..599

C13_Witness ==
  \E r \in Slots :
    /\ ~stealth /\ InPipeline(r) /\ Finished(r)
    /\ rl[r].called /\ rl[r].error /\ ~rl[r].applied
    /\ resp[r].status = 429

(***************************************************************************)
(* C14: in every state the counter of each key equals the number of        *)
(* requests whose rate-limit call ran for that key; a request rejected     *)
(* before the rate-limit step has no call; and in every step no counter    *)
(* decreases or disappears, the steps before the rate-limit step leave     *)
(* the table unchanged, and the table changes only in a rate-limit call.   *)
(***************************************************************************)
EarlyRejections ==
  {"invalid_json", "honeypot", "invalid_tenant", "invalid_name",
   "invalid_email", "invalid_phone", "invalid_company_name",
   "invalid_message", "settings_error", "tenant_unavailable",
   "forbidden_origin"}

C14_CounterState ==
  /\ \A k \in AllKeys : CountOf(counters, k) = Cardinality(Batch(k))
  /\ \A r \in Slots : outcome[r] \in EarlyRejections => ~rl[r].called

C14_CounterStep ==
  /\ \A k \in DOMAIN counters :
       k \in DOMAIN counters' /\ counters'[k] >= counters[k]
  /\ \A r \in Slots :
       (pc[r] \in {"start", "settings"} /\ pc'[r] # pc[r]) =>
         counters' = counters
  /\ counters' # counters =>
       \E r \in Slots : pc[r] = "rpc" /\ ~rl[r].applied /\ rl'[r].applied

C14_CounterExact == []C14_CounterState /\ [][C14_CounterStep]_vars

C14_Witness ==
  \E r1, r2 \in Slots :
    /\ outcome[r1] = "forbidden_origin"
    /\ rl[r2].applied
    /\ DOMAIN counters = {rl[r2].key}
    /\ counters[rl[r2].key] = 1

(***************************************************************************)
(* C15: the rate-limit call of a request changes only the counter keyed    *)
(* by its own (normalized tenant, source address, current hour), and a     *)
(* call returns false only when more than `quota` calls of that same       *)
(* tenant and address ran in that hour: the calls of other tenants and     *)
(* of other addresses never make it fail.                                  *)
(***************************************************************************)
\* the source address of a request, from its headers
ExpectedAddr(r) ==
  IF Len(input[r].xff) > 0 THEN input[r].xff[1]
  ELSE IF input[r].realip # "" THEN input[r].realip
  ELSE "0.0.0.0"

SameSource(r1, r2) ==
  /\ rl[r1].applied /\ rl[r2].applied
  /\ NamedSlug(r1) = NamedSlug(r2)
  /\ ExpectedAddr(r1) = ExpectedAddr(r2)
  /\ rl[r1].key[3] = rl[r2].key[3]

C15_OwnQuota ==
  \A r \in Slots :
    (rl[r].applied /\ ~rl[r].result) =>
      Cardinality({r2 \in Slots : SameSource(r, r2)})
        > SettingsTable[NamedSlug(r)].rate_limit_per_hour

C15_OwnCounter ==
  \A r \in Slots :
    (rl'[r].applied /\ ~rl[r].applied) =>
      \A k \in DOMAIN counters' :
        CountOf(counters', k) # CountOf(counters, k) =>
          k = <<NamedSlug(r), ExpectedAddr(r), now \div TicksPerHour>>

C15_Isolation == []C15_OwnQuota /\ [][C15_OwnCounter]_vars

C15_Witness ==
  \E r1, r2 \in Slots :
    /\ rl[r1].applied /\ rl[r2].applied
    /\ CountOf(counters, rl[r1].key) >= QuotaOf(rl[r1].key)
    /\ rl[r1].key[1] # rl[r2].key[1]
    /\ rl[r1].key[2] = rl[r2].key[2]
    /\ rl[r1].key[3] = rl[r2].key[3]
    /\ outcome[r1] = "admitted" /\ outcome[r2] = "admitted"

(***************************************************************************)
(* C16: the bucket of a call is the hour of the clock at the call; a call  *)
(* that finds no counter for its bucket creates it with count 1 and        *)
(* returns true whatever the counters of earlier hours hold; so per        *)
(* (tenant, address) at most `quota` requests pass in one bucket and at    *)
(* most 2 * quota in two consecutive buckets.                              *)
(***************************************************************************)
C16_FreshBucket ==
  \A r \in Slots :
    (rl'[r].applied /\ ~rl[r].applied) =>
      LET k == rl'[r].key
      IN /\ k[3] = now \div TicksPerHour
         /\ k \notin DOMAIN counters =>
              /\ counters'[k] = 1
              /\ rl'[r].v_count = 1
              /\ rl'[r].result

PassedIn(slug, addr, hours) ==
  {r \in Slots : /\ rl[r].applied /\ PassedRateLimit(r)
                 /\ rl[r].key[1] = slug /\ rl[r].key[2] = addr
                 /\ rl[r].key[3] \in hours}

C16_PerBucket ==
  \A k \in AllKeys :
    /\ Cardinality(PassedIn(k[1], k[2], {k[3]})) <= QuotaOf(k)
    /\ Cardinality(PassedIn(k[1], k[2], {k[3], k[3] + 1})) <= 2 * QuotaOf(k)

C16_FixedWindows == []C16_PerBucket /\ [][C16_FreshBucket]_vars

C16_Witness ==
  \E r1, r2 \in Slots :
    /\ rl[r1].applied /\ rl[r2].applied
    /\ rl[r1].key[1] = rl[r2].key[1] /\ rl[r1].key[2] = rl[r2].key[2]
    /\ rl[r2].key[3] = rl[r1].key[3] + 1
    /\ counters[rl[r1].key] = QuotaOf(rl[r1].key)
    /\ rl[r2].v_count = 1
    /\ outcome[r1] = "admitted" /\ outcome[r2] = "admitted"
    /\ Cardinality(PassedIn(rl[r1].key[1], rl[r1].key[2],
                            {rl[r1].key[3], rl[r2].key[3]}))
         > QuotaOf(rl[r1].key)

(***************************************************************************)
(* C17 (as stated, safety part): a POST request moves through parse,       *)
(* checks, tenant, origin, rate limit, persist in that order; a step runs  *)
(* only if all earlier steps passed; and a finished request has exactly    *)
(* one terminal outcome, a rejection by one step or the admission, with    *)
(* one response.                                                           *)
(***************************************************************************)
TerminalOutcomes == EarlyRejections \cup {"rate_limited", "admitted"}

C17_LinearPipeline ==
  \A r \in Slots :
    InPipeline(r) =>
      /\ pc[r] \in {"start", "settings", "rpc", "insert", "done"}
      /\ rl[r].called =>
           /\ pc[r] \in {"insert", "done"}
           /\ local[r].settings # {} /\ ~local[r].settingsErr
      /\ inserts[r] > 0 =>
           /\ Finished(r)
           /\ rl[r].applied /\ rl[r].result /\ ~rl[r].error
      /\ outcome[r] \in EarlyRejections => ~rl[r].called /\ inserts[r] = 0
      /\ outcome[r] = "rate_limited" => rl[r].called /\ inserts[r] = 0
      /\ outcome[r] = "admitted" => inserts[r] = 1
      /\ Finished(r) = (outcome[r] # "none")
      /\ Finished(r) = (resp[r] # NoResp)
      /\ Finished(r) => outcome[r] \in TerminalOutcomes

(***************************************************************************)
(* C18: the tenant the handler uses is trimmed and lower-cased, and        *)
(* normalizing it again changes nothing; requests that spell the tenant    *)
(* "cf" with other case or surrounding whitespace resolve to the same      *)
(* configuration row and, for the same address and hour, increment the     *)
(* same counter; audit rows carry the normalized slug.                     *)
(***************************************************************************)
CfSpellings == { <<"c", "f">>, <<" ", "C", "f", "\t">> }

IsNormalized(t) ==
  /\ Len(t) > 0 => t[1] \notin {" ", "\t"} /\ t[Len(t)] \notin {" ", "\t"}
  /\ \A i \in 1..Len(t) : t[i] \notin {"C", "F", "O", "B"}

C18_NormalizedTenant ==
  \A r \in Slots :
    (InPipeline(r) /\ input[r].body = "object" /\ pc[r] # "start") =>
      /\ IsNormalized(local[r].tenant)
      /\ normalizeTenantSlug(local[r].tenant) = local[r].tenant
      /\ input[r].tenant \in CfSpellings =>
           /\ local[r].tenant = <<"c", "f">>
           /\ outcome[r] # "tenant_unavailable"
           /\ (rl[r].called \/ local[r].settings # {})
                => local[r].settings = {SettingsTable[<<"c", "f">>]}
           /\ rl[r].applied =>
                /\ rl[r].key[1] = <<"c", "f">>
                /\ rl[r].key[2] = ExpectedAddr(r)
           /\ \A row \in RowsOf(r) : row.tenant_slug = <<"c", "f">>

C18_Witness ==
  \E r1, r2 \in Slots :
    /\ input[r1].tenant = <<" ", "C", "f", "\t">>
    /\ input[r2].tenant = <<"c", "f">>
    /\ rl[r1].applied /\ rl[r2].applied
    /\ rl[r1].key = rl[r2].key
    /\ counters[rl[r1].key] = 2
    /\ local[r1].settings = local[r2].settings

(***************************************************************************)
(* C19: in every state the number of requests with an audit row, and the   *)
(* number with an insert attempt, among the requests whose rate-limit      *)
(* call ran for one (tenant, address, hour bucket) is at most the quota    *)
(* of the tenant.                                                          *)
(***************************************************************************)
C19_QuotaBound ==
  \A k \in AllKeys :
    /\ Cardinality({r \in Batch(k) : RowsOf(r) # {}}) <= QuotaOf(k)
    /\ Cardinality({r \in Batch(k) : inserts[r] > 0}) <= QuotaOf(k)

C19_Witness ==
  \E k \in AllKeys :
    /\ Cardinality(Batch(k)) > QuotaOf(k)
    /\ Cardinality({r \in Batch(k) : RowsOf(r) # {}}) = QuotaOf(k)
    /\ \A r \in Batch(k) : Finished(r)

(***************************************************************************)
(* C20: the address passed to the rate limiter is the first entry of       *)
(* x-forwarded-for, else x-real-ip, else 0.0.0.0; requests of one tenant   *)
(* without either header share the counter (tenant, 0.0.0.0, hour), at     *)
(* most `quota` of them pass per bucket, and their audit rows store a      *)
(* null address (rows of other requests store the address).                *)
(***************************************************************************)
Headerless(r) == input[r].xff = <<>> /\ input[r].realip = ""

C20_SourceAddress ==
  /\ \A r \in Slots :
       /\ rl[r].called => local[r].ip = ExpectedAddr(r)
       /\ rl[r].applied => rl[r].key[2] = ExpectedAddr(r)
       /\ (rl[r].applied /\ Headerless(r)) =>
            rl[r].key = <<NamedSlug(r), "0.0.0.0", rl[r].key[3]>>
       /\ \A row \in RowsOf(r) :
            row.ip = IF Headerless(r) THEN "NULL" ELSE ExpectedAddr(r)
  /\ \A k \in AllKeys :
       Cardinality({r \in Batch(k) : Headerless(r) /\ PassedRateLimit(r)})
         <= QuotaOf(k)

C20_Witness ==
  \E r1, r2 \in Slots :
    /\ r1 # r2 /\ Headerless(r1) /\ Headerless(r2)
    /\ rl[r1].applied /\ rl[r2].applied /\ rl[r1].key = rl[r2].key
    /\ counters[rl[r1].key] = 2
    /\ outcome[r1] = "admitted" /\ outcome[r2] = "rate_limited"
    /\ \E row \in RowsOf(r1) : row.ip = "NULL"

====
